---------------------------- MODULE Spec2Model ----------------------------
(***************************************************************************)
(* Model of build.py, the Flutter multi-environment build wrapper.         *)
(*                                                                         *)
(* One execution of the script is: main() parses sys.argv with argparse,   *)
(* calls build_flutter(flavor, platform, release), which composes the      *)
(* token list, prints it, runs it with subprocess.run(cmd, check=True)     *)
(* and prints a confirmation.  The interpreter turns the way main() ends   *)
(* (return, SystemExit, uncaught exception) into the exit status.          *)
(*                                                                         *)
(* Inputs of the model: the argument vector and the return code of the     *)
(* child process.  Environment faults (executable missing, stdout closed,  *)
(* signals) are outside the model.                                         *)
(*                                                                         *)
(* The string literals of build.py that are not ASCII (the three emoji     *)
(* prefixes and the Chinese message texts) are written here in ASCII;      *)
(* each definition names the literal it stands for.                        *)
(***************************************************************************)
EXTENDS Integers, Sequences, FiniteSets, TLC

VARIABLES
    argv,         \* sys.argv[1:], the tokens given on the command line
    pc,           \* position of the control flow (see the actions)
    args,         \* the argparse Namespace: [flavor, platform, debug]
    flavor,       \* build_flutter parameter
    platform,     \* build_flutter parameter
    release,      \* build_flutter parameter
    cmd,          \* build_flutter local: the token list
    stdout,       \* the lines printed so far
    runnerCalls,  \* the token lists handed to subprocess.run so far
    returncodes,  \* the return codes of the child processes that completed
    raised,       \* the exception propagating out of main(), or "None"
    exitCode,     \* the exit status of the process, NotExited while it runs
    history,      \* the compositions so far: call number, inputs and resulting cmd
    ncalls        \* number of build_flutter calls so far

vars == <<argv, pc, args, flavor, platform, release, cmd, stdout,
          runnerCalls, returncodes, raised, exitCode, history, ncalls>>

---------------------------------------------------------------------------
(* Bounds *)

MaxArgs == 5          \* longest argument vector explored
MaxReturnCode == 2    \* the child returns a code in 0..MaxReturnCode
MaxCalls == 3         \* calls of build_flutter made by the repeated-call driver

---------------------------------------------------------------------------
(* Values *)

NotExited == -1
NoValue == "<None>"    \* Python's None for an option that was not given

\* the option strings argparse knows: lines 46-48, and -h added by default
OptionStrings == {"--flavor", "--platform", "--debug", "-h"}

\* plain words, usable as the value of --flavor or of --platform
Words == {"dev", "android", "ios"}

\* values given in the attached form --flavor=<value>
AttachedValues == {"--debug"}

AttachedToken(opt, val) == opt \o "=" \o val

AttachedTokens == {AttachedToken("--flavor", v) : v \in AttachedValues}

ArgvTokens == OptionStrings \cup Words \cup AttachedTokens

\* argparse splits an argument with '=' into the option string and its
\* explicit argument; any other argument has no explicit argument
SplitOption(tok) ==
    IF \E o \in {"--flavor", "--platform"}, v \in AttachedValues :
            AttachedToken(o, v) = tok
    THEN CHOOSE p \in {"--flavor", "--platform"} \X AttachedValues :
            AttachedToken(p[1], p[2]) = tok
    ELSE <<tok, NoValue>>

\* an argument that starts with '-' is never taken as the value of an option
LooksLikeOption(tok) == tok \in OptionStrings \cup AttachedTokens

EmptyNamespace == [flavor |-> NoValue, platform |-> NoValue, debug |-> FALSE]

\* ArgumentParser.parse_args: the arguments are consumed left to right.
\* Result: [status, ns] with status "ok", "help" (exit 0) or "error" (exit 2).
RECURSIVE ParseFrom(_, _, _, _)
ParseFrom(av, i, ns, extras) ==
    IF i > Len(av)
    THEN IF ns.flavor = NoValue \/ ns.platform = NoValue
         THEN [status |-> "error", ns |-> ns]    \* required argument missing
         ELSE IF extras > 0
              THEN [status |-> "error", ns |-> ns]    \* unrecognized arguments
              ELSE [status |-> "ok", ns |-> ns]
    ELSE LET opt == SplitOption(av[i])[1]
             explicit == SplitOption(av[i])[2]
         IN  IF opt = "-h"
             THEN [status |-> "help", ns |-> ns]
             ELSE IF opt = "--debug"
             THEN ParseFrom(av, i + 1, [ns EXCEPT !.debug = TRUE], extras)
             ELSE IF opt \in {"--flavor", "--platform"}
             THEN LET dest == IF opt = "--flavor" THEN "flavor" ELSE "platform"
                  IN  IF explicit # NoValue
                      THEN ParseFrom(av, i + 1, [ns EXCEPT ![dest] = explicit], extras)
                      ELSE IF i + 1 <= Len(av) /\ ~LooksLikeOption(av[i + 1])
                           THEN ParseFrom(av, i + 2, [ns EXCEPT ![dest] = av[i + 1]], extras)
                           ELSE [status |-> "error", ns |-> ns]   \* expected one argument
             ELSE ParseFrom(av, i + 1, ns, extras + 1)

parse_args(av) == ParseFrom(av, 1, EmptyNamespace, 0)

---------------------------------------------------------------------------
(* build_flutter: composition *)

target_file == "lib/main.dart"

dart_define(f) == "--dart-define=ENV=" \o f

\* a variant whose ios branch was copied from the android branch unchanged
ArtifactToken_AlwaysApk(p) == "apk"

\* lines 15 and 27: the artifact type of the platform's branch
ArtifactToken(p) == IF p = "android" THEN "apk" ELSE "ios"

\* lines 20-23 and 32-35: the mode flag appended
ModeFlag(r) == IF r THEN "--release" ELSE "--debug"

\* a variant without the else branch of line 36: every platform is built
Supported_NoElse(p) == TRUE

\* lines 13, 25, 36: the platform has a branch of its own
Supported(p) == p = "android" \/ p = "ios"

\* a variant that appends the precomputed build_mode of line 8 as well
ComposeCmd_TwoModeFlags(f, p, r) ==
    Append(Append(<<"flutter", "build", ArtifactToken(p),
                    "--flavor", f,
                    "-t", target_file,
                    dart_define(f)>>,
                  ModeFlag(r)),
           ModeFlag(r))

\* lines 13-35: the base list of the platform's branch, then the appended mode flag
ComposeCmd(f, p, r) ==
    Append(<<"flutter", "build", ArtifactToken(p),
             "--flavor", f,
             "-t", target_file,
             dart_define(f)>>,
           ModeFlag(r))

\* " ".join(tokens)
RECURSIVE Join(_)
Join(tokens) ==
    IF Len(tokens) = 0 THEN ""
    ELSE IF Len(tokens) = 1 THEN tokens[1]
    ELSE tokens[1] \o " " \o Join(Tail(tokens))

\* stands for the literal of line 37, an emoji cross mark and "unsupported platform: "
UnsupportedPrefix == "[X] unsupported platform: "
\* stands for the literal of line 40, an emoji rocket and "build command:"
CommandPrefix == "[>] build command:"
\* stand for the literals of line 42, an emoji check mark and "build done: platform =", ", environment ="
DonePrefix == "[OK] build done: platform ="
DoneMiddle == ", environment ="

UnsupportedLine(p) == UnsupportedPrefix \o p

\* print(a, b) writes its arguments separated by single spaces
CommandLine(c) == Join(<<CommandPrefix, Join(c)>>)

DoneLine(p, f) == Join(<<DonePrefix, p, DoneMiddle, f>>)

\* the usage text argparse prints for -h
HelpText == "usage: build.py [-h] --flavor FLAVOR --platform PLATFORM [--debug]"

---------------------------------------------------------------------------
(* Termination of the interpreter *)

\* a variant in which a failed build is caught and main returns normally
ExitStatus_Swallowed(exc) ==
    CASE exc = "None" -> 0
      [] exc = "SystemExit(0)" -> 0
      [] exc = "SystemExit(1)" -> 1
      [] exc = "SystemExit(2)" -> 2
      [] exc = "CalledProcessError" -> 0

\* the interpreter's exit status: 0 after a normal return, the argument of
\* SystemExit, 1 after an uncaught exception
ExitStatus(exc) ==
    CASE exc = "None" -> 0
      [] exc = "SystemExit(0)" -> 0
      [] exc = "SystemExit(1)" -> 1
      [] exc = "SystemExit(2)" -> 2
      [] exc = "CalledProcessError" -> 1

---------------------------------------------------------------------------
(* Initial states *)

ArgVectors == UNION {[1..n -> ArgvTokens] : n \in 0..MaxArgs}

Init ==
    /\ argv \in ArgVectors
    /\ pc = "main"
    /\ args = EmptyNamespace
    /\ flavor = NoValue
    /\ platform = NoValue
    /\ release = TRUE
    /\ cmd = <<>>
    /\ stdout = <<>>
    /\ runnerCalls = <<>>
    /\ returncodes = <<>>
    /\ raised = "None"
    /\ exitCode = NotExited
    /\ history = {}
    /\ ncalls = 0

---------------------------------------------------------------------------
(* Actions *)

\* main, lines 45-50: build the parser and parse the argument vector
ParseArgs ==
    /\ pc = "main"
    /\ LET r == parse_args(argv)
       IN  CASE r.status = "ok" ->
                  /\ args' = r.ns
                  /\ pc' = "call"
                  /\ UNCHANGED <<stdout, raised>>
             [] r.status = "help" ->
                  /\ stdout' = Append(stdout, HelpText)
                  /\ raised' = "SystemExit(0)"
                  /\ pc' = "raised"
                  /\ UNCHANGED args
             [] r.status = "error" ->
                  /\ raised' = "SystemExit(2)"
                  /\ pc' = "raised"
                  /\ UNCHANGED <<args, stdout>>
    /\ UNCHANGED <<argv, flavor, platform, release, cmd, runnerCalls,
                   returncodes, exitCode, history, ncalls>>

\* a variant that passes the flag through: release = args.debug
ReleaseOf_Unnegated(debug) == debug

\* main, line 55: release = not args.debug
ReleaseOf(debug) == ~debug

\* main, lines 52-56: call build_flutter with the parsed values
CallBuildFlutter ==
    /\ pc = "call"
    /\ flavor' = args.flavor
    /\ platform' = args.platform
    /\ release' = ReleaseOf(args.debug)
    /\ ncalls' = ncalls + 1
    /\ pc' = "build_flutter"
    /\ UNCHANGED <<argv, args, cmd, stdout, runnerCalls, returncodes,
                   raised, exitCode, history>>

\* a variant that extends a token list kept between calls
Compose_Extending ==
    /\ pc = "build_flutter"
    /\ IF Supported(platform)
       THEN /\ cmd' = cmd \o ComposeCmd(flavor, platform, release)
            /\ history' = history \cup
                   {[call |-> ncalls, flavor |-> flavor, platform |-> platform,
                     release |-> release, cmd |-> cmd']}
            /\ pc' = "print_cmd"
            /\ UNCHANGED <<stdout, raised>>
       ELSE /\ cmd' = <<>>
            /\ stdout' = Append(stdout, UnsupportedLine(platform))
            /\ raised' = "SystemExit(1)"
            /\ pc' = "raised"
            /\ UNCHANGED history
    /\ UNCHANGED <<argv, args, flavor, platform, release, runnerCalls,
                   returncodes, exitCode, ncalls>>

\* build_flutter, lines 7-38: compose the token list, or reject the platform
Compose ==
    /\ pc = "build_flutter"
    /\ IF Supported(platform)
       THEN /\ cmd' = ComposeCmd(flavor, platform, release)
            /\ history' = history \cup
                   {[call |-> ncalls, flavor |-> flavor, platform |-> platform,
                     release |-> release, cmd |-> cmd']}
            /\ pc' = "print_cmd"
            /\ UNCHANGED <<stdout, raised>>
       ELSE /\ cmd' = <<>>
            /\ stdout' = Append(stdout, UnsupportedLine(platform))
            /\ raised' = "SystemExit(1)"
            /\ pc' = "raised"
            /\ UNCHANGED history
    /\ UNCHANGED <<argv, args, flavor, platform, release, runnerCalls,
                   returncodes, exitCode, ncalls>>

\* a variant in which the print comes after the run: this step starts the child
PrintCmd_AfterRun ==
    /\ pc = "print_cmd"
    /\ runnerCalls' = Append(runnerCalls, cmd)
    /\ pc' = "wait"
    /\ UNCHANGED <<argv, args, flavor, platform, release, cmd, stdout,
                   returncodes, raised, exitCode, history, ncalls>>

\* build_flutter, line 40: print the space-joined command
PrintCmd ==
    /\ pc = "print_cmd"
    /\ stdout' = Append(stdout, CommandLine(cmd))
    /\ pc' = "run"
    /\ UNCHANGED <<argv, args, flavor, platform, release, cmd, runnerCalls,
                   returncodes, raised, exitCode, history, ncalls>>

\* build_flutter, line 41: subprocess.run starts the child and blocks
RunStart ==
    /\ pc = "run"
    /\ runnerCalls' = Append(runnerCalls, cmd)
    /\ pc' = "wait"
    /\ UNCHANGED <<argv, args, flavor, platform, release, cmd, stdout,
                   returncodes, raised, exitCode, history, ncalls>>

\* a variant without check=True: no return code raises
CheckRaises_Unchecked(rc) == FALSE

\* check=True: a non-zero return code raises CalledProcessError
CheckRaises(rc) == rc # 0

\* a variant that runs the command again after a failure
RunComplete_Retry ==
    /\ pc = "wait"
    /\ \E rc \in 0..MaxReturnCode :
          /\ returncodes' = Append(returncodes, rc)
          /\ IF CheckRaises(rc)
             THEN raised' = raised /\ pc' = "run"
             ELSE raised' = raised /\ pc' = "print_done"
    /\ UNCHANGED <<argv, args, flavor, platform, release, cmd, stdout,
                   runnerCalls, exitCode, history, ncalls>>

\* build_flutter, line 41: the child exits with rc and subprocess.run returns or raises
RunComplete ==
    /\ pc = "wait"
    /\ \E rc \in 0..MaxReturnCode :
          /\ returncodes' = Append(returncodes, rc)
          /\ IF CheckRaises(rc)
             THEN raised' = "CalledProcessError" /\ pc' = "raised"
             ELSE raised' = raised /\ pc' = "print_done"
    /\ UNCHANGED <<argv, args, flavor, platform, release, cmd, stdout,
                   runnerCalls, exitCode, history, ncalls>>

\* build_flutter, line 42: print the confirmation and return
PrintDone ==
    /\ pc = "print_done"
    /\ stdout' = Append(stdout, DoneLine(platform, flavor))
    /\ pc' = "returned"
    /\ UNCHANGED <<argv, args, flavor, platform, release, cmd, runnerCalls,
                   returncodes, raised, exitCode, history, ncalls>>

\* lines 58-59: main() returned or an exception left it; the process ends
ProcessExit ==
    /\ pc \in {"returned", "raised"}
    /\ exitCode' = ExitStatus(raised)
    /\ pc' = "exited"
    /\ UNCHANGED <<argv, args, flavor, platform, release, cmd, stdout,
                   runnerCalls, returncodes, raised, history, ncalls>>

Next ==
    \/ ParseArgs
    \/ CallBuildFlutter
    \/ Compose
    \/ PrintCmd
    \/ RunStart
    \/ RunComplete
    \/ PrintDone
    \/ ProcessExit

Spec == Init /\ [][Next]_vars

---------------------------------------------------------------------------
(* Repeated calls: a caller that imports build_flutter, replaces the runner *)
(* by a double and calls the function several times in one process,        *)
(* catching SystemExit and CalledProcessError.                              *)

CallFlavors == {"dev", "--debug"}
CallPlatforms == {"android", "ios", "dev"}

InitCalls ==
    /\ argv = <<>>
    /\ pc = "build_flutter"
    /\ args = EmptyNamespace
    /\ flavor \in CallFlavors
    /\ platform \in CallPlatforms
    /\ release \in BOOLEAN
    /\ cmd = <<>>
    /\ stdout = <<>>
    /\ runnerCalls = <<>>
    /\ returncodes = <<>>
    /\ raised = "None"
    /\ exitCode = NotExited
    /\ history = {}
    /\ ncalls = 1

\* the caller calls build_flutter again, with a fresh runner double and capture
CallAgain ==
    /\ pc \in {"returned", "raised"}
    /\ ncalls < MaxCalls
    /\ flavor' \in CallFlavors
    /\ platform' \in CallPlatforms
    /\ release' \in BOOLEAN
    /\ ncalls' = ncalls + 1
    /\ pc' = "build_flutter"
    /\ stdout' = <<>>
    /\ runnerCalls' = <<>>
    /\ returncodes' = <<>>
    /\ raised' = "None"
    /\ UNCHANGED <<argv, args, cmd, exitCode, history>>

NextCalls ==
    \/ Compose
    \/ PrintCmd
    \/ RunStart
    \/ RunComplete
    \/ PrintDone
    \/ CallAgain

SpecCalls == InitCalls /\ [][NextCalls]_vars

---------------------------------------------------------------------------
(* Properties *)

Range(seq) == {seq[i] : i \in 1..Len(seq)}

Last(seq) == seq[Len(seq)]

ModeTokens == {"--release", "--debug"}

ModeTokenCount(tokens) == Cardinality({i \in 1..Len(tokens) : tokens[i] \in ModeTokens})

\* build_flutter has been entered in this execution
Entered == ncalls > 0

\* every confirmation line the program can print
DoneLines == {DoneLine(p, f) : p \in Words \cup {NoValue}, f \in Words \cup AttachedValues \cup {NoValue}}

DonePrinted == \E i \in 1..Len(stdout) : stdout[i] \in DoneLines

\* v is the value the argument vector gives to option opt: the value of
\* the last occurrence of opt, written separately or attached with '='
GivenValue(opt, v) ==
    \E i \in 1..Len(argv) :
        /\ \/ argv[i] = opt /\ i < Len(argv) /\ argv[i + 1] = v
           \/ argv[i] = AttachedToken(opt, v)
        /\ \A j \in (i + 1)..Len(argv) :
              /\ argv[j] # opt
              /\ \A w \in AttachedValues : argv[j] # AttachedToken(opt, w)

\* C1: when build_flutter is called with a platform that is neither
\* "android" nor "ios", whatever the flavor and the release value, the
\* subprocess runner is never called and the process ends with exit code 1.
C1_UnsupportedPlatformExits1 ==
    (Entered /\ ~(platform = "android" \/ platform = "ios")) =>
        /\ runnerCalls = <<>>
        /\ returncodes = <<>>
        /\ pc \in {"build_flutter", "raised", "exited"}
        /\ pc = "exited" => exitCode = 1

C1_Witness ==
    /\ pc = "exited"
    /\ Entered
    /\ platform = "dev"
    /\ flavor = "--debug"
    /\ release = FALSE
    /\ exitCode = 1
    /\ runnerCalls = <<>>

\* C2 as stated: when the tool exits with a non-zero code c, the process
\* ends with exit status c.
C2_ExitStatusEqualsToolCode ==
    (pc = "exited" /\ returncodes # <<>> /\ returncodes[1] # 0) =>
        exitCode = returncodes[1]

\* C2 amended: when the platform is supported and the tool exits with a
\* non-zero code c, the process ends with exit status 1, for every non-zero
\* c; the command was run once, not again, and no confirmation is printed.
C2_ToolFailureExits1 ==
    (returncodes # <<>> /\ returncodes[1] # 0) =>
        /\ Len(runnerCalls) = 1
        /\ Len(returncodes) = 1
        /\ ~DonePrinted
        /\ pc \in {"raised", "exited"}
        /\ pc = "exited" => exitCode = 1

C2_Witness ==
    /\ pc = "exited"
    /\ returncodes = <<2>>
    /\ exitCode = 1
    /\ Len(runnerCalls) = 1

\* C3: the token sequence handed to the subprocess is exactly the 9 tokens
\* flutter, build, A, --flavor, f, -t, lib/main.dart, --dart-define=ENV=f, M
\* where A is apk for android and ios for ios, and M is --release when
\* release is true and --debug otherwise.
C3_TokensHandedToRunner ==
    \A i \in 1..Len(runnerCalls) :
        /\ platform \in {"android", "ios"}
        /\ runnerCalls[i] =
              <<"flutter", "build",
                IF platform = "android" THEN "apk" ELSE "ios",
                "--flavor", flavor,
                "-t", "lib/main.dart",
                "--dart-define=ENV=" \o flavor,
                IF release THEN "--release" ELSE "--debug">>

C3_Witness ==
    /\ argv = <<"--flavor", "dev", "--platform", "ios", "--debug">>
    /\ runnerCalls = << <<"flutter", "build", "ios", "--flavor", "dev", "-t",
                          "lib/main.dart", "--dart-define=ENV=dev", "--debug">> >>

\* C4 as stated: for every flavor, flag-like flavors included, the composed
\* token sequence contains exactly one token equal to --release or --debug.
C4_ExactlyOneModeToken ==
    cmd # <<>> => ModeTokenCount(cmd) = 1

\* C4 amended: the composed sequence ends with exactly one appended mode
\* flag, --release when release is true and --debug otherwise; no other
\* token equals --release or --debug except the flavor value at position 5
\* when the flavor is itself one of these two strings, so the count of such
\* tokens is 1 for every other flavor and 2 for these two.
C4_OneAppendedModeFlag ==
    cmd # <<>> =>
        /\ Len(cmd) = 9
        /\ Last(cmd) = (IF release THEN "--release" ELSE "--debug")
        /\ \A i \in 1..(Len(cmd) - 1) : cmd[i] \in ModeTokens => (i = 5 /\ cmd[i] = flavor)
        /\ ModeTokenCount(cmd) = (IF flavor \in ModeTokens THEN 2 ELSE 1)

C4_Witness ==
    /\ cmd # <<>>
    /\ flavor = "--debug"
    /\ release = TRUE
    /\ ModeTokenCount(cmd) = 2
    /\ Last(cmd) = "--release"

\* C5: the confirmation line naming platform and flavor is printed if and
\* only if the subprocess was run and returned 0, and only after it has
\* completed; it is never printed when the tool returns non-zero or the
\* platform is unsupported.
C5_ConfirmationIffToolSucceeded ==
    /\ DonePrinted =>
          /\ Len(runnerCalls) = 1
          /\ returncodes = <<0>>
          /\ platform \in {"android", "ios"}
          /\ Last(stdout) = Join(<<DonePrefix, platform, DoneMiddle, flavor>>)
    /\ (pc = "exited" /\ returncodes = <<0>>) => DonePrinted

C5_Witness ==
    /\ pc = "exited"
    /\ returncodes = <<0>>
    /\ platform = "android"
    /\ flavor = "dev"
    /\ Last(stdout) = "[OK] build done: platform = android , environment = dev"

\* C6: the steps occur in the order validate platform, print the
\* space-joined command, start the subprocess, report the outcome: whenever
\* the subprocess has been started the command line was printed before, and
\* with an unsupported platform only the error message is printed and no
\* command is printed or run.
C6_PrintBeforeRun ==
    /\ runnerCalls # <<>> =>
          /\ stdout # <<>>
          /\ stdout[1] = CommandLine(runnerCalls[1])
    /\ (stdout # <<>> /\ stdout[1] = CommandLine(cmd)) => platform \in {"android", "ios"}
    /\ DonePrinted =>
          /\ returncodes # <<>>
          /\ stdout = <<CommandLine(cmd), DoneLine(platform, flavor)>>
    /\ (Entered /\ platform \notin {"android", "ios"}) =>
          /\ runnerCalls = <<>>
          /\ stdout \in {<<>>, <<UnsupportedLine(platform)>>}
          /\ pc = "exited" => stdout = <<UnsupportedLine(platform)>>

C6_Witness ==
    /\ pc = "wait"
    /\ Len(runnerCalls) = 1
    /\ stdout = <<"[>] build command: flutter build apk --flavor dev -t lib/main.dart --dart-define=ENV=dev --release">>

\* C7 as stated: the process ends with exit code 0 if and only if the
\* platform is android or ios and the tool was run and returned 0.
C7_ExitZeroIffToolSucceeded ==
    pc = "exited" =>
        (exitCode = 0 <=>
            (Entered /\ platform \in {"android", "ios"} /\ returncodes = <<0>>))

\* C7 amended: the process ends with exit code 0 if and only if either the
\* platform is android or ios and the tool was run and returned 0, or the
\* argument parser met -h before any argument error and printed the help;
\* every other execution that ends (argument error, unsupported platform,
\* tool failure) ends with a non-zero exit code.
C7_ExitZeroIffToolSucceededOrHelp ==
    pc = "exited" =>
        /\ exitCode \in {0, 1, 2}
        /\ exitCode = 0 <=>
              \/ Entered /\ platform \in {"android", "ios"} /\ returncodes = <<0>>
              \/ ~Entered /\ stdout = <<HelpText>>

C7_Witness ==
    /\ pc = "exited"
    /\ exitCode = 0
    /\ ~Entered
    /\ argv = <<"--flavor", "dev", "-h">>

\* C8: through the command line, release = not debug: the command run ends
\* with --debug exactly when --debug is in the argument vector and with
\* --release exactly when it is not, and flavor and platform reach the
\* composer as given.
C8_ReleaseIsNotDebug ==
    \A i \in 1..Len(runnerCalls) :
        /\ Last(runnerCalls[i]) = "--debug" <=> "--debug" \in Range(argv)
        /\ Last(runnerCalls[i]) = "--release" <=> "--debug" \notin Range(argv)
        /\ GivenValue("--flavor", flavor)
        /\ GivenValue("--platform", platform)
        /\ runnerCalls[i][5] = flavor

C8_Witness ==
    /\ argv = <<"--debug", "--flavor=--debug", "--platform", "android">>
    /\ Len(runnerCalls) = 1
    /\ Last(runnerCalls[1]) = "--debug"
    /\ runnerCalls[1][5] = "--debug"

\* C9: composition is deterministic and stateless: two compositions for the
\* same flavor, platform and release, whatever was composed in between,
\* give identical token sequences.
C9_SameInputsSameTokens ==
    \A h1, h2 \in history :
        (h1.flavor = h2.flavor /\ h1.platform = h2.platform /\ h1.release = h2.release)
            => h1.cmd = h2.cmd

C9_Witness ==
    \E h1, h2, h3 \in history :
        /\ h1.call < h2.call /\ h2.call < h3.call
        /\ h1.flavor = h3.flavor /\ h1.platform = h3.platform /\ h1.release = h3.release
        /\ h2.platform # h1.platform
        /\ h1.cmd = h3.cmd

\* C10: the subprocess is started at most once in an execution, and exactly
\* once when build_flutter runs with a supported platform: no retry after a
\* failure, no second run after success, and the status of the one run
\* decides the outcome.
C10_RunAtMostOnce ==
    /\ Len(runnerCalls) <= 1
    /\ Len(returncodes) <= Len(runnerCalls)
    /\ runnerCalls # <<>> => (Entered /\ platform \in {"android", "ios"})
    /\ (pc = "exited" /\ Entered /\ platform \in {"android", "ios"}) =>
          /\ Len(runnerCalls) = 1
          /\ Len(returncodes) = 1
          /\ exitCode = 0 <=> returncodes[1] = 0

C10_Witness ==
    /\ pc = "exited"
    /\ Len(runnerCalls) = 1
    /\ returncodes = <<1>>
    /\ exitCode # 0

=============================================================================
